---- MODULE Spec2Model ----
(***************************************************************************)
(* Lake Formation permissions resource: Create / Read / Delete handlers of *)
(* aws/resource_aws_lakeformation_permissions.go, run against a remote     *)
(* service offering GrantPermissions, RevokePermissions and a paged        *)
(* ListPermissions.                                                        *)
(*                                                                         *)
(* Go values are represented as follows.                                   *)
(*   - a nil *string is NIL; a non-nil *string is the string it points to  *)
(*     (so a pointer to "" is "", which differs from NIL);                 *)
(*   - a nil struct pointer is NilPtr; a non-nil one is a record;          *)
(*   - a []*string is a sequence; the nil slice and the empty slice are    *)
(*     both <<>> (the expanders never build an empty non-nil slice);       *)
(*   - a Terraform nested block (TypeList, MaxItems 1) is a sequence of    *)
(*     zero or one records that carry every key of the block's schema,     *)
(*     unset keys holding the zero value ("" / FALSE / <<>>).              *)
(***************************************************************************)
EXTENDS Integers, Sequences, FiniteSets, TLC

VARIABLES
    d,                            \* *schema.ResourceData: the stored fields and the handle (id)
    request,                      \* d as the caller passed it to the running handler
    isNew,                        \* d.IsNewResource()
    remote,                       \* the entries the remote service holds, in List order
    pc,                           \* position of the running handler
    op,                           \* the handler the caller invoked: Create, Read or Delete
    input,                        \* the handler's local `input`
    matchResource,                \* Read's local *matchResource
    selectPermissionsResource,    \* Read's local selectPermissionsResource
    principalResourcePermissions, \* Read's local slice of retained entries
    result,                       \* what the handler returned
    tries,                        \* attempts made so far by the running resource.Retry
    okCalls,                      \* successful attempts of each remote call in this handler
    finalCalls,                   \* attempts of each remote call made after its budget ran out
    exhausted,                    \* the remote calls whose retry budget ran out in this handler
    lastErr,                      \* the outcome of the latest attempt of each remote call
    grantSent,                    \* the input carried by the latest GrantPermissions attempt
    cancelled                     \* the caller has signalled cancellation to the running handler

vars == <<d, request, isNew, remote, pc, op, input, matchResource, selectPermissionsResource,
          principalResourcePermissions, result, tries, okCalls, finalCalls, exhausted,
          lastErr, grantSent, cancelled>>

----------------------------------------------------------------------------
(* Bounds *)

\* entries the remote service holds when the model starts
MaxRemote == 3
\* attempts of one remote call that fit in its retry budget
Budget == 2

----------------------------------------------------------------------------
(* Go values *)

NIL == "<nil>"
NilPtr == [nil |-> TRUE]
EmptyStruct == [empty |-> TRUE]

\* aws.String(v) guarded by `v != ""`, as every expander does
StrPtr(v) == IF v # "" THEN v ELSE NIL

\* aws.StringValue on d.Set: a nil pointer leaves the key at its zero value
StrVal(p) == IF p = NIL THEN "" ELSE p

\* lakeformation.Resource{}
EmptyResource ==
    [Catalog |-> NilPtr, DataLocation |-> NilPtr, Database |-> NilPtr,
     Table |-> NilPtr, TableWithColumns |-> NilPtr]

----------------------------------------------------------------------------
(* Expanders: configuration block -> API object *)

expandLakeFormationDataLocationResource(tfMap) ==
    IF tfMap = NilPtr THEN NilPtr
    ELSE [CatalogId |-> StrPtr(tfMap.catalog_id), ResourceArn |-> StrPtr(tfMap.arn)]

expandLakeFormationDatabaseResource(tfMap) ==
    IF tfMap = NilPtr THEN NilPtr
    ELSE [CatalogId |-> StrPtr(tfMap.catalog_id), Name |-> StrPtr(tfMap.name)]

\* Reads catalog_id, database_name, name and wildcard only: applied to a
\* table_with_columns block it drops the column fields.
expandLakeFormationTableResource(tfMap) ==
    IF tfMap = NilPtr THEN NilPtr
    ELSE [CatalogId     |-> StrPtr(tfMap.catalog_id),
          DatabaseName  |-> StrPtr(tfMap.database_name),
          Name          |-> StrPtr(tfMap.name),
          TableWildcard |-> IF "wildcard" \in DOMAIN tfMap /\ tfMap.wildcard
                            THEN EmptyStruct ELSE NilPtr]

expandLakeFormationTableWithColumnsResource(tfMap) ==
    IF tfMap = NilPtr THEN NilPtr
    ELSE [CatalogId      |-> StrPtr(tfMap.catalog_id),
          ColumnNames    |-> tfMap.column_names,
          DatabaseName   |-> StrPtr(tfMap.database_name),
          ColumnWildcard |-> IF Len(tfMap.excluded_column_names) > 0
                             THEN [ExcludedColumnNames |-> tfMap.excluded_column_names]
                             ELSE NilPtr,
          Name           |-> StrPtr(tfMap.name)]

\* expandLakeFormationResourceType: fixed precedence, TABLE_WITH_COLUMNS the fallback
expandLakeFormationResourceType(rd) ==
    IF rd.catalog_resource THEN "CATALOG"
    ELSE IF Len(rd.data_location) > 0 THEN "DATA_LOCATION"
    ELSE IF Len(rd.database) > 0 THEN "DATABASE"
    ELSE IF Len(rd.table) > 0 THEN "TABLE"
    ELSE "TABLE_WITH_COLUMNS"

expandLakeFormationResource_AlwaysSquashed(rd, squashTableWithColumns) ==
    LET t == expandLakeFormationResourceType(rd) IN
    CASE t = "CATALOG" -> [EmptyResource EXCEPT !.Catalog = EmptyStruct]
      [] t = "DATA_LOCATION" ->
            [EmptyResource EXCEPT
                !.DataLocation = expandLakeFormationDataLocationResource(rd.data_location[1])]
      [] t = "DATABASE" ->
            [EmptyResource EXCEPT
                !.Database = expandLakeFormationDatabaseResource(rd.database[1])]
      [] t = "TABLE" ->
            [EmptyResource EXCEPT
                !.Table = expandLakeFormationTableResource(rd.table[1])]
      [] OTHER ->
            [EmptyResource EXCEPT
                !.Table = expandLakeFormationTableResource(rd.table_with_columns[1])]

expandLakeFormationResource(rd, squashTableWithColumns) ==
    LET t == expandLakeFormationResourceType(rd) IN
    CASE t = "CATALOG" -> [EmptyResource EXCEPT !.Catalog = EmptyStruct]
      [] t = "DATA_LOCATION" ->
            [EmptyResource EXCEPT
                !.DataLocation = expandLakeFormationDataLocationResource(rd.data_location[1])]
      [] t = "DATABASE" ->
            [EmptyResource EXCEPT
                !.Database = expandLakeFormationDatabaseResource(rd.database[1])]
      [] t = "TABLE" ->
            [EmptyResource EXCEPT
                !.Table = expandLakeFormationTableResource(rd.table[1])]
      [] OTHER ->
            IF squashTableWithColumns
            THEN [EmptyResource EXCEPT
                    !.Table = expandLakeFormationTableResource(rd.table_with_columns[1])]
            ELSE [EmptyResource EXCEPT
                    !.TableWithColumns =
                        expandLakeFormationTableWithColumnsResource(rd.table_with_columns[1])]

\* The block read with d.Get carries every key, so both type assertions
\* succeed whenever a table block is present; database_name and name are
\* wrapped with aws.String unguarded.
expandLakeFormationResourceForSelectPermissions(rd) ==
    IF Len(rd.table) = 0 THEN NilPtr
    ELSE IF rd.table[1] = NilPtr THEN NilPtr
    ELSE [EmptyResource EXCEPT
            !.TableWithColumns =
                [CatalogId      |-> NIL,
                 ColumnNames    |-> <<>>,
                 DatabaseName   |-> rd.table[1].database_name,
                 ColumnWildcard |-> [ExcludedColumnNames |-> <<>>],
                 Name           |-> rd.table[1].name]]

----------------------------------------------------------------------------
(* Flatteners: API object -> configuration block, as d.Set then stores it *)

flattenLakeFormationDataLocationResource(apiObject) ==
    [catalog_id |-> StrVal(apiObject.CatalogId), arn |-> StrVal(apiObject.ResourceArn)]

flattenLakeFormationDatabaseResource(apiObject) ==
    [catalog_id |-> StrVal(apiObject.CatalogId), name |-> StrVal(apiObject.Name)]

flattenLakeFormationTableResource(apiObject) ==
    [catalog_id    |-> StrVal(apiObject.CatalogId),
     database_name |-> StrVal(apiObject.DatabaseName),
     name          |-> StrVal(apiObject.Name),
     wildcard      |-> apiObject.TableWildcard # NilPtr]

flattenLakeFormationTableWithColumnsResource(apiObject) ==
    [catalog_id            |-> StrVal(apiObject.CatalogId),
     column_names          |-> apiObject.ColumnNames,
     database_name         |-> StrVal(apiObject.DatabaseName),
     excluded_column_names |-> IF apiObject.ColumnWildcard # NilPtr
                               THEN apiObject.ColumnWildcard.ExcludedColumnNames
                               ELSE <<>>,
     name                  |-> StrVal(apiObject.Name)]

RECURSIVE flattenLakeFormationPermissions(_)
flattenLakeFormationPermissions(apiObjects) ==
    IF apiObjects = <<>> THEN <<>>
    ELSE Head(apiObjects).Permissions \o flattenLakeFormationPermissions(Tail(apiObjects))

RECURSIVE flattenLakeFormationGrantPermissions(_)
flattenLakeFormationGrantPermissions(apiObjects) ==
    IF apiObjects = <<>> THEN <<>>
    ELSE Head(apiObjects).PermissionsWithGrantOption
            \o flattenLakeFormationGrantPermissions(Tail(apiObjects))

----------------------------------------------------------------------------
(* Locator comparison *)

\* What the pointees of `in` hold once the comparison has run. `in` is a
\* copy of the Resource struct, but its fields are pointers shared with the
\* caller's Resource, so each assignment writes through to the caller's
\* locator.
CompareResourceFill(in, out) ==
    [in EXCEPT
        !.DataLocation =
            IF in.DataLocation # NilPtr /\ out.DataLocation # NilPtr
               /\ in.DataLocation.CatalogId = NIL
            THEN [@ EXCEPT !.CatalogId = out.DataLocation.CatalogId] ELSE @,
        !.Database =
            IF in.Database # NilPtr /\ out.Database # NilPtr
               /\ in.Database.CatalogId = NIL
            THEN [@ EXCEPT !.CatalogId = out.Database.CatalogId] ELSE @,
        !.Table =
            IF in.Table # NilPtr /\ out.Table # NilPtr
               /\ in.Table.CatalogId = NIL
            THEN [@ EXCEPT !.CatalogId = out.Table.CatalogId] ELSE @,
        !.TableWithColumns =
            IF in.TableWithColumns # NilPtr /\ out.TableWithColumns # NilPtr
               /\ in.TableWithColumns.CatalogId = NIL
            THEN [@ EXCEPT !.CatalogId = out.TableWithColumns.CatalogId] ELSE @]

\* reflect.DeepEqual(in, out) after the fill
resourceAwsLakeFormationPermissionsCompareResource(in, out) ==
    CompareResourceFill(in, out) = out

----------------------------------------------------------------------------
(* Remote errors and their classification *)

NoErr == [code |-> "", msg |-> ""]

InvalidInput == "InvalidInputException"
ConcurrentModification == "ConcurrentModificationException"
AccessDenied == "AccessDeniedException"
EntityNotFound == "EntityNotFoundException"

\* The errors the remote service answers a call with, one for each way the
\* three retry functions classify a failure: retried by Create and Read,
\* retried by Create and Delete, retried by Create alone, retried by none,
\* and the absence Read looks for. A message is reduced to the recognised
\* fragment it contains, "other" when it contains none.
RemoteErrors ==
    { [code |-> InvalidInput, msg |-> "Invalid principal"],
      [code |-> ConcurrentModification, msg |-> "other"],
      [code |-> AccessDenied, msg |-> "is not authorized to access requested permissions"],
      [code |-> InvalidInput, msg |-> "other"],
      [code |-> EntityNotFound, msg |-> "other"] }

\* isAWSErr(err, code, message): the code is equal and the message contains
\* `message` (the empty fragment is contained in every message)
isAWSErr(e, code, message) ==
    e.code = code /\ (message = "" \/ e.msg = message)

\* tfawserr.ErrCodeEquals
ErrCodeEquals(e, code) == e.code = code

\* the retry function of Create: which failures are resource.RetryableError
CreateRetryable(e) ==
    \/ isAWSErr(e, InvalidInput, "Invalid principal")
    \/ isAWSErr(e, InvalidInput, "Grantee has no permissions")
    \/ isAWSErr(e, InvalidInput, "register the S3 path")
    \/ isAWSErr(e, ConcurrentModification, "")
    \/ isAWSErr(e, AccessDenied, "is not authorized to access requested permissions")

ReadRetryable_AnyInvalidInput(e) == e.code = InvalidInput

\* the retry function of Read
ReadRetryable(e) ==
    isAWSErr(e, InvalidInput, "Invalid principal")

DeleteRetryable_NoConcurrentModification(e) ==
    isAWSErr(e, InvalidInput, "register the S3 path")

\* the retry function of Delete
DeleteRetryable(e) ==
    \/ isAWSErr(e, InvalidInput, "register the S3 path")
    \/ isAWSErr(e, ConcurrentModification, "")

----------------------------------------------------------------------------
(* The declared requests *)

\* the handle d.SetId stores: a non-empty string computed from the input
HandleId == "hash"

Principal == "role/X"

BaseRequest ==
    [id |-> "", principal |-> Principal, catalog_id |-> "", catalog_resource |-> FALSE,
     data_location |-> <<>>, database |-> <<>>, table |-> <<>>,
     table_with_columns |-> <<>>,
     permissions |-> <<"SELECT">>, permissions_with_grant_option |-> <<>>]

DatabaseBlock(cat, name) == [catalog_id |-> cat, name |-> name]

TableBlock(cat, db, name, wildcard) ==
    [catalog_id |-> cat, database_name |-> db, name |-> name, wildcard |-> wildcard]

TableWithColumnsBlock(cat, db, name, cols, excluded) ==
    [catalog_id |-> cat, column_names |-> cols, database_name |-> db,
     excluded_column_names |-> excluded, name |-> name]

\* Validated requests: exactly one locator is declared (ConflictsWith),
\* permissions has at least one element (MinItems 1).
Requests ==
    { [BaseRequest EXCEPT !.database = <<DatabaseBlock("", "db1")>>,
                          !.permissions = <<"SELECT", "ALTER">>],
      [BaseRequest EXCEPT !.database = <<DatabaseBlock("c1", "db1")>>,
                          !.catalog_id = "c1",
                          !.permissions_with_grant_option = <<"SELECT">>],
      [BaseRequest EXCEPT !.table = <<TableBlock("", "db1", "t1", FALSE)>>],
      [BaseRequest EXCEPT !.table_with_columns =
            <<TableWithColumnsBlock("", "db1", "t1", <<"col1">>, <<>>)>>],
      [BaseRequest EXCEPT !.catalog_resource = TRUE,
                          !.permissions = <<"CREATE_DATABASE">>] }

----------------------------------------------------------------------------
(* The remote service *)

\* the catalog the service fills in where a locator names none
DefaultCatalog == "c1"

Entry(res, perms, grantable) ==
    [Principal |-> Principal, Resource |-> res,
     Permissions |-> perms, PermissionsWithGrantOption |-> grantable]

DatabaseLocator(cat, name) ==
    [EmptyResource EXCEPT !.Database = [CatalogId |-> cat, Name |-> name]]

TableLocator(cat, db, name) ==
    [EmptyResource EXCEPT !.Table =
        [CatalogId |-> cat, DatabaseName |-> db, Name |-> name, TableWildcard |-> NilPtr]]

\* the entry the service keeps for SELECT on all columns of a table
ColumnWildcardLocator(cat, db, name) ==
    [EmptyResource EXCEPT !.TableWithColumns =
        [CatalogId |-> cat, ColumnNames |-> <<>>, DatabaseName |-> db,
         ColumnWildcard |-> [ExcludedColumnNames |-> <<>>], Name |-> name]]

\* the entries the service may hold for the principal before any handler
\* runs, by the resource type a List call asks for
DatabaseEntries ==
    { Entry(DatabaseLocator("c1", "db1"), <<"ALTER">>, <<>>),
      Entry(DatabaseLocator("c2", "db1"), <<"DROP">>, <<>>) }

TableEntries ==
    { Entry(TableLocator("c1", "db1", "t1"), <<"ALTER">>, <<"ALTER">>),
      Entry(TableLocator("c2", "db1", "t2"), <<"DROP">>, <<>>),
      Entry(ColumnWildcardLocator("c1", "db1", "t1"), <<"SELECT">>, <<>>) }

RemoteUniverse == DatabaseEntries \cup TableEntries

\* what the service holds when a handler starts: up to MaxRemote entries of
\* one resource type. Entries of another variant than the one compared
\* neither match nor are written to, and a Grant adds its own entry to
\* whatever is held.
RemoteStates ==
    UNION { [1..k -> DatabaseEntries] \cup [1..k -> TableEntries] : k \in 0..MaxRemote }

\* server-side default-filling of an omitted catalog id
DefaultFill(res) ==
    [res EXCEPT
        !.DataLocation = IF @ # NilPtr /\ @.CatalogId = NIL
                         THEN [@ EXCEPT !.CatalogId = DefaultCatalog] ELSE @,
        !.Database = IF @ # NilPtr /\ @.CatalogId = NIL
                     THEN [@ EXCEPT !.CatalogId = DefaultCatalog] ELSE @,
        !.Table = IF @ # NilPtr /\ @.CatalogId = NIL
                  THEN [@ EXCEPT !.CatalogId = DefaultCatalog] ELSE @,
        !.TableWithColumns = IF @ # NilPtr /\ @.CatalogId = NIL
                             THEN [@ EXCEPT !.CatalogId = DefaultCatalog] ELSE @]

SameGrant(e, in) ==
    /\ e.Principal = in.Principal
    /\ e.Resource \in {in.Resource, DefaultFill(in.Resource)}

\* Grant: the service stores what was sent (with or without the catalog id
\* filled in); granting on an entry it already holds replaces its permissions
GrantStore(rem, in, fill) ==
    IF \E i \in 1..Len(rem) : SameGrant(rem[i], in)
    THEN [i \in 1..Len(rem) |->
            IF SameGrant(rem[i], in)
            THEN [rem[i] EXCEPT !.Permissions = in.Permissions,
                                !.PermissionsWithGrantOption = in.PermissionsWithGrantOption]
            ELSE rem[i]]
    ELSE Append(rem, Entry(IF fill THEN DefaultFill(in.Resource) ELSE in.Resource,
                           in.Permissions, in.PermissionsWithGrantOption))

\* Revoke: the service drops the entry
RECURSIVE RevokeStore(_, _)
RevokeStore(rem, in) ==
    IF rem = <<>> THEN <<>>
    ELSE IF SameGrant(Head(rem), in) THEN RevokeStore(Tail(rem), in)
    ELSE <<Head(rem)>> \o RevokeStore(Tail(rem), in)

----------------------------------------------------------------------------
(* Handler results and bookkeeping *)

NoResult == [ret |-> "none", msg |-> "", cause |-> NoErr]
Ok == [ret |-> "nil", msg |-> "", cause |-> NoErr]
Error(msg, cause) == [ret |-> "error", msg |-> msg, cause |-> cause]

NoCalls == [grant |-> 0, list |-> 0, revoke |-> 0]
NoOutcome == [grant |-> NoErr, list |-> NoErr, revoke |-> NoErr]

\* resource.Retry: after a retryable failure the function is called again
\* unless the budget has run out; the budget is wall-clock time, so it may
\* run out after any attempt, and it has run out after Budget attempts
BudgetExpired(made, expired) == expired \/ made >= Budget

\* Bookkeeping of one attempt of `call` that ended with `out`; `again` when
\* resource.Retry goes on, `final` when the attempt follows the budget's end
Count(call, out, again, final) ==
    /\ tries' = IF again THEN tries + 1 ELSE 0
    /\ okCalls' = IF out = NoErr THEN [okCalls EXCEPT ![call] = @ + 1] ELSE okCalls
    /\ finalCalls' = IF final THEN [finalCalls EXCEPT ![call] = @ + 1] ELSE finalCalls

\* Whether resource.Retry calls the function again after an attempt that
\* ended with `out`: the function returned resource.RetryableError. The call
\* made after the budget ran out stands outside resource.Retry.
RetriedAgain_AnyErrorAlways(final, out, retryable) == out # NoErr

RetriedAgain_FinalToo(final, out, retryable) == out # NoErr /\ retryable

RetriedAgain(final, out, retryable) == ~final /\ out # NoErr /\ retryable

\* isResourceTimeoutError(err): resource.Retry returned because its budget ran out
isResourceTimeoutError(timedOut) == timedOut

----------------------------------------------------------------------------
(* Read *)

ListInput_Unsquashed(rd) ==
    [Principal |-> rd.principal,
     CatalogId |-> StrPtr(rd.catalog_id),
     Resource  |-> expandLakeFormationResource(rd, FALSE)]

\* ListPermissionsInput of Read
ListInput(rd) ==
    [Principal |-> rd.principal,
     CatalogId |-> StrPtr(rd.catalog_id),
     Resource  |-> expandLakeFormationResource(rd, TRUE)]

\* The body of the page callback for one entry. st.match and st.select are
\* the locators the comparisons write through to.
RetainEntry(st, permission) ==
    LET m == CompareResourceFill(st.match, permission.Resource) IN
    IF resourceAwsLakeFormationPermissionsCompareResource(st.match, permission.Resource)
    THEN [match |-> m, select |-> st.select, retained |-> Append(st.retained, permission)]
    ELSE IF st.select # NilPtr
    THEN [match    |-> m,
          select   |-> CompareResourceFill(st.select, permission.Resource),
          retained |-> IF resourceAwsLakeFormationPermissionsCompareResource(
                              st.select, permission.Resource)
                       THEN Append(st.retained, permission)
                       ELSE st.retained]
    ELSE [match |-> m, select |-> st.select, retained |-> st.retained]

\* the page callback run over the entries one List attempt delivers
RECURSIVE ListPermissionsPages(_, _)
ListPermissionsPages(st, entries) ==
    IF entries = <<>> THEN st
    ELSE ListPermissionsPages(RetainEntry(st, Head(entries)), Tail(entries))

\* d.Set of the locator fields from the first retained entry
SetLocator(rd, res) ==
    LET a == IF res.Catalog # NilPtr THEN [rd EXCEPT !.catalog_resource = TRUE] ELSE rd
        b == [a EXCEPT !.data_location =
                IF res.DataLocation # NilPtr
                THEN <<flattenLakeFormationDataLocationResource(res.DataLocation)>>
                ELSE <<>>]
        c == [b EXCEPT !.database =
                IF res.Database # NilPtr
                THEN <<flattenLakeFormationDatabaseResource(res.Database)>>
                ELSE <<>>]
    IN  IF res.TableWithColumns # NilPtr
        THEN [c EXCEPT !.table_with_columns =
                <<flattenLakeFormationTableWithColumnsResource(res.TableWithColumns)>>]
        ELSE IF res.Table # NilPtr
        THEN [c EXCEPT !.table_with_columns = <<>>,
                       !.table = <<flattenLakeFormationTableResource(res.Table)>>]
        ELSE [c EXCEPT !.table = <<>>]

ReadFinish_SetBeforeCount(rd, new, e, retained) ==
    IF ~new /\ ErrCodeEquals(e, EntityNotFound)
    THEN [d |-> [rd EXCEPT !.id = ""], result |-> Ok]
    ELSE IF e # NoErr
    THEN [d |-> rd, result |-> Error("error reading Lake Formation permissions", e)]
    ELSE IF Len(retained) = 0
    THEN [d |-> rd, result |-> Error("no permissions found", NoErr)]
    ELSE IF Len(retained) > 2
    THEN [d |-> [rd EXCEPT !.permissions = flattenLakeFormationPermissions(retained)],
          result |-> Error("multiple permissions found for same resource", NoErr)]
    ELSE [d |-> SetLocator(
                    [rd EXCEPT !.principal = retained[1].Principal,
                               !.permissions = flattenLakeFormationPermissions(retained),
                               !.permissions_with_grant_option =
                                    flattenLakeFormationGrantPermissions(retained)],
                    retained[1].Resource),
          result |-> Ok]

ReadFinish_NoMatchIsNotFound(rd, new, e, retained) ==
    IF (~new /\ ErrCodeEquals(e, EntityNotFound)) \/ (e = NoErr /\ Len(retained) = 0)
    THEN [d |-> [rd EXCEPT !.id = ""], result |-> Ok]
    ELSE IF e # NoErr
    THEN [d |-> rd, result |-> Error("error reading Lake Formation permissions", e)]
    ELSE IF Len(retained) > 2
    THEN [d |-> rd, result |-> Error("multiple permissions found for same resource", NoErr)]
    ELSE [d |-> SetLocator(
                    [rd EXCEPT !.principal = retained[1].Principal,
                               !.permissions = flattenLakeFormationPermissions(retained),
                               !.permissions_with_grant_option =
                                    flattenLakeFormationGrantPermissions(retained)],
                    retained[1].Resource),
          result |-> Ok]

ReadFinish_NewResourceToo(rd, new, e, retained) ==
    IF ErrCodeEquals(e, EntityNotFound)
    THEN [d |-> [rd EXCEPT !.id = ""], result |-> Ok]
    ELSE IF e # NoErr
    THEN [d |-> rd, result |-> Error("error reading Lake Formation permissions", e)]
    ELSE IF Len(retained) = 0
    THEN [d |-> rd, result |-> Error("no permissions found", NoErr)]
    ELSE IF Len(retained) > 2
    THEN [d |-> rd, result |-> Error("multiple permissions found for same resource", NoErr)]
    ELSE [d |-> SetLocator(
                    [rd EXCEPT !.principal = retained[1].Principal,
                               !.permissions = flattenLakeFormationPermissions(retained),
                               !.permissions_with_grant_option =
                                    flattenLakeFormationGrantPermissions(retained)],
                    retained[1].Resource),
          result |-> Ok]

\* Read after the List calls: `e` is err, `retained` is principalResourcePermissions
ReadFinish(rd, new, e, retained) ==
    IF ~new /\ ErrCodeEquals(e, EntityNotFound)
    THEN [d |-> [rd EXCEPT !.id = ""], result |-> Ok]
    ELSE IF e # NoErr
    THEN [d |-> rd, result |-> Error("error reading Lake Formation permissions", e)]
    ELSE IF Len(retained) = 0
    THEN [d |-> rd, result |-> Error("no permissions found", NoErr)]
    ELSE IF Len(retained) > 2
    THEN [d |-> rd, result |-> Error("multiple permissions found for same resource", NoErr)]
    ELSE [d |-> SetLocator(
                    [rd EXCEPT !.principal = retained[1].Principal,
                               !.permissions = flattenLakeFormationPermissions(retained),
                               !.permissions_with_grant_option =
                                    flattenLakeFormationGrantPermissions(retained)],
                    retained[1].Resource),
          result |-> Ok]

\* Read up to the first List call
BeginRead(rd) ==
    /\ input' = ListInput(rd)
    /\ matchResource' = expandLakeFormationResource(rd, FALSE)
    /\ selectPermissionsResource' = expandLakeFormationResourceForSelectPermissions(rd)
    /\ principalResourcePermissions' = <<>>
    /\ pc' = "list"

\* One ListPermissionsPages call that delivers the first n entries and ends
\* with `out`, followed by what Read does with it. `final` is the call made
\* after the budget ran out.
ListCall(out, n, expired, final) ==
    LET st == ListPermissionsPages(
                [match |-> matchResource, select |-> selectPermissionsResource,
                 retained |-> principalResourcePermissions],
                SubSeq(remote, 1, n))
        again == RetriedAgain(final, out, ReadRetryable(out))
        fin == ReadFinish(d, isNew, out, st.retained)
    IN  /\ Count("list", out, again, final)
        /\ lastErr' = [lastErr EXCEPT !.list = out]
        /\ IF again
           THEN /\ matchResource' = st.match
                /\ selectPermissionsResource' = st.select
                /\ principalResourcePermissions' = st.retained
                /\ IF isResourceTimeoutError(BudgetExpired(tries + 1, expired))
                   THEN pc' = "list_final" /\ exhausted' = exhausted \cup {"list"}
                   ELSE pc' = "list" /\ UNCHANGED exhausted
                /\ UNCHANGED <<d, result>>
           ELSE /\ d' = fin.d
                /\ result' = fin.result
                /\ pc' = "done"
                /\ matchResource' = IF out = NoErr THEN st.match ELSE NilPtr
                /\ selectPermissionsResource' = IF out = NoErr THEN st.select ELSE NilPtr
                /\ principalResourcePermissions' = IF out = NoErr THEN st.retained ELSE <<>>
                /\ UNCHANGED exhausted
        /\ UNCHANGED <<request, isNew, remote, op, input, grantSent, cancelled>>

Outcomes == {NoErr} \cup RemoteErrors

\* Whether the budget has run out is asked only after a retryable failure.
Expiries(retryable) == IF retryable THEN BOOLEAN ELSE {FALSE}

\* Whether the service fills in the catalog id is asked only when it stores.
Fills(out) == IF out = NoErr THEN BOOLEAN ELSE {FALSE}

\* the caller invokes one handler on the resource
CallerReady == pc = "idle"

ResetBookkeeping ==
    /\ result' = NoResult
    /\ tries' = 0
    /\ okCalls' = NoCalls
    /\ finalCalls' = NoCalls
    /\ exhausted' = {}
    /\ lastErr' = NoOutcome
    /\ grantSent' = NilPtr
    /\ request' = d

\* the caller refreshes a resource it holds a handle for
ReadStart ==
    /\ CallerReady
    /\ d.id # ""
    /\ op' = "Read"
    /\ isNew' = FALSE
    /\ BeginRead(d)
    /\ ResetBookkeeping
    /\ UNCHANGED <<d, remote, cancelled>>

\* A call that succeeds has delivered every entry; a call that fails has
\* delivered the pages before the failing one: any prefix of the entries.
\* What a failing call delivered is read again only if the call is retried.
Delivered(out, final) ==
    IF out = NoErr THEN {Len(remote)}
    ELSE IF ~final /\ ReadRetryable(out) THEN 0..Len(remote)
    ELSE {0}

ListAttempt ==
    /\ pc = "list"
    /\ \E out \in Outcomes :
        \E n \in Delivered(out, FALSE), expired \in Expiries(ReadRetryable(out)) :
            ListCall(out, n, expired, FALSE)

ListFinal ==
    /\ pc = "list_final"
    /\ \E out \in Outcomes :
        \E n \in Delivered(out, TRUE) : ListCall(out, n, FALSE, TRUE)

----------------------------------------------------------------------------
(* Create *)

MutationInput_GrantableAsPermissions(rd) ==
    [Principal |-> rd.principal,
     CatalogId |-> StrPtr(rd.catalog_id),
     Permissions |-> rd.permissions_with_grant_option,
     PermissionsWithGrantOption |-> rd.permissions_with_grant_option,
     Resource |-> expandLakeFormationResource(rd, FALSE)]

\* GrantPermissionsInput of Create, RevokePermissionsInput of Delete
MutationInput(rd) ==
    [Principal |-> rd.principal,
     CatalogId |-> StrPtr(rd.catalog_id),
     Permissions |-> rd.permissions,
     PermissionsWithGrantOption |-> rd.permissions_with_grant_option,
     Resource |-> expandLakeFormationResource(rd, FALSE)]

\* the caller creates (no handle yet) or updates (Update is Create)
CreateStart ==
    /\ CallerReady
    /\ op' = "Create"
    /\ isNew' = (d.id = "")
    /\ input' = MutationInput(d)
    /\ pc' = "grant"
    /\ matchResource' = NilPtr
    /\ selectPermissionsResource' = NilPtr
    /\ principalResourcePermissions' = <<>>
    /\ ResetBookkeeping
    /\ UNCHANGED <<d, remote, cancelled>>

GrantCall_NoRead(out, fill, expired, final) ==
    LET again == RetriedAgain(final, out, CreateRetryable(out)) IN
    /\ Count("grant", out, again, final)
    /\ lastErr' = [lastErr EXCEPT !.grant = out]
    /\ grantSent' = input
    /\ remote' = IF out = NoErr THEN GrantStore(remote, input, fill) ELSE remote
    /\ IF again
       THEN /\ IF isResourceTimeoutError(BudgetExpired(tries + 1, expired))
               THEN pc' = "grant_final" /\ exhausted' = exhausted \cup {"grant"}
               ELSE pc' = "grant" /\ UNCHANGED exhausted
            /\ UNCHANGED <<d, result>>
       ELSE /\ result' = IF out # NoErr
                         THEN Error("error creating Lake Formation Permissions", out)
                         ELSE Ok
            /\ d' = IF out = NoErr THEN [d EXCEPT !.id = HandleId] ELSE d
            /\ pc' = "done"
            /\ UNCHANGED exhausted
    /\ UNCHANGED <<cancelled, request, isNew, op, input, matchResource, selectPermissionsResource,
                   principalResourcePermissions>>

\* One GrantPermissions call ending with `out`, followed by what Create does
\* with it.
GrantCall(out, fill, expired, final) ==
    LET again == RetriedAgain(final, out, CreateRetryable(out)) IN
    /\ Count("grant", out, again, final)
    /\ lastErr' = [lastErr EXCEPT !.grant = out]
    /\ grantSent' = input
    /\ remote' = IF out = NoErr THEN GrantStore(remote, input, fill) ELSE remote
    /\ IF again
       THEN /\ IF isResourceTimeoutError(BudgetExpired(tries + 1, expired))
               THEN pc' = "grant_final" /\ exhausted' = exhausted \cup {"grant"}
               ELSE pc' = "grant" /\ UNCHANGED exhausted
            /\ UNCHANGED <<d, result, input, matchResource, selectPermissionsResource,
                           principalResourcePermissions>>
       ELSE IF out # NoErr
       THEN /\ result' = Error("error creating Lake Formation Permissions", out)
            /\ pc' = "done"
            /\ UNCHANGED <<d, input, matchResource, selectPermissionsResource,
                           principalResourcePermissions, exhausted>>
       ELSE /\ d' = [d EXCEPT !.id = HandleId]
            /\ BeginRead(d)
            /\ UNCHANGED <<result, exhausted>>
    /\ UNCHANGED <<request, isNew, op, cancelled>>

GrantAttempt ==
    /\ pc = "grant"
    /\ \E out \in Outcomes :
        \E fill \in Fills(out), expired \in Expiries(CreateRetryable(out)) :
            GrantCall(out, fill, expired, FALSE)

GrantFinal ==
    /\ pc = "grant_final"
    /\ \E out \in Outcomes :
        \E fill \in Fills(out) : GrantCall(out, fill, FALSE, TRUE)

----------------------------------------------------------------------------
(* Delete *)

\* the caller destroys a resource it holds a handle for
DeleteStart ==
    /\ CallerReady
    /\ d.id # ""
    /\ op' = "Delete"
    /\ isNew' = FALSE
    /\ input' = MutationInput(d)
    /\ pc' = "revoke"
    /\ matchResource' = NilPtr
    /\ selectPermissionsResource' = NilPtr
    /\ principalResourcePermissions' = <<>>
    /\ ResetBookkeeping
    /\ UNCHANGED <<d, remote, cancelled>>

\* One RevokePermissions call ending with `out`, followed by what Delete does
\* with it.
RevokeCall(out, expired, final) ==
    LET again == RetriedAgain(final, out, DeleteRetryable(out)) IN
    /\ Count("revoke", out, again, final)
    /\ lastErr' = [lastErr EXCEPT !.revoke = out]
    /\ remote' = IF out = NoErr THEN RevokeStore(remote, input) ELSE remote
    /\ IF again
       THEN /\ IF isResourceTimeoutError(BudgetExpired(tries + 1, expired))
               THEN pc' = "revoke_final" /\ exhausted' = exhausted \cup {"revoke"}
               ELSE pc' = "revoke" /\ UNCHANGED exhausted
            /\ UNCHANGED result
       ELSE /\ result' = IF out # NoErr
                         THEN Error("unable to revoke LakeFormation Permissions", out)
                         ELSE Ok
            /\ pc' = "done"
            /\ UNCHANGED exhausted
    /\ UNCHANGED <<cancelled, d, request, isNew, op, input, matchResource, selectPermissionsResource,
                   principalResourcePermissions, grantSent>>

RevokeAttempt ==
    /\ pc = "revoke"
    /\ \E out \in Outcomes :
        \E expired \in Expiries(DeleteRetryable(out)) : RevokeCall(out, expired, FALSE)

RevokeFinal ==
    /\ pc = "revoke_final"
    /\ \E out \in Outcomes : RevokeCall(out, FALSE, TRUE)

----------------------------------------------------------------------------
(* The system *)

Init ==
    /\ \E r \in Requests, h \in {"", HandleId} : d = [r EXCEPT !.id = h]
    /\ request = NilPtr
    /\ remote \in RemoteStates
    /\ isNew = FALSE
    /\ pc = "idle"
    /\ op = "none"
    /\ input = NilPtr
    /\ matchResource = NilPtr
    /\ selectPermissionsResource = NilPtr
    /\ principalResourcePermissions = <<>>
    /\ result = NoResult
    /\ tries = 0
    /\ okCalls = NoCalls
    /\ finalCalls = NoCalls
    /\ exhausted = {}
    /\ lastErr = NoOutcome
    /\ grantSent = NilPtr
    /\ cancelled = FALSE

Next ==
    \/ CreateStart
    \/ GrantAttempt
    \/ GrantFinal
    \/ ReadStart
    \/ ListAttempt
    \/ ListFinal
    \/ DeleteStart
    \/ RevokeAttempt
    \/ RevokeFinal

Spec == Init /\ [][Next]_vars

----------------------------------------------------------------------------
(* What the claims speak of *)

\* the primary locator and the auxiliary select locator of the request
Declared == expandLakeFormationResource(request, FALSE)
Auxiliary == expandLakeFormationResourceForSelectPermissions(request)

MatchesPrimary(e) ==
    resourceAwsLakeFormationPermissionsCompareResource(Declared, e.Resource)

MatchesAuxiliary(e) ==
    /\ Auxiliary # NilPtr
    /\ resourceAwsLakeFormationPermissionsCompareResource(Auxiliary, e.Resource)

\* the positions of the List response whose entry matches either locator
Matching == {i \in 1..Len(remote) : MatchesPrimary(remote[i]) \/ MatchesAuxiliary(remote[i])}

\* a Read has returned: the handler Read, or the Read that ends Create
ReadReturned ==
    /\ pc = "done"
    /\ \/ op = "Read"
       \/ op = "Create" /\ okCalls.grant = 1

\* ... and its List call succeeded, delivering every entry
ListSucceeded == ReadReturned /\ okCalls.list = 1

\* the stored fields are those the Read was given, the handle included
StoredUntouched == d = [request EXCEPT !.id = HandleId]

----------------------------------------------------------------------------
(* C1 *)

\* C1: when a Read's List call succeeds and no entry of the response matches
\* the primary or the auxiliary locator, the Read returns the consistency
\* error "no permissions found"; it does not clear the handle and stores
\* nothing.
C1_NoMatchIsConsistencyError ==
    (ListSucceeded /\ Matching = {}) =>
        /\ result = Error("no permissions found", NoErr)
        /\ d.id # ""
        /\ StoredUntouched

\* a Read of a response of several entries, none of them matching
C1_Witness ==
    /\ ListSucceeded
    /\ op = "Read"
    /\ Len(remote) >= 2
    /\ Matching = {}
    /\ result.msg = "no permissions found"

----------------------------------------------------------------------------
(* C2 *)

\* C2: when a Read's List call succeeds and three or more entries of the
\* response match the primary or the auxiliary locator, the Read returns an
\* error and stores no permissions.
C2_ThreeMatchesIsConsistencyError ==
    (ListSucceeded /\ Cardinality(Matching) >= 3) =>
        /\ result.ret = "error"
        /\ StoredUntouched

----------------------------------------------------------------------------
(* C3 *)

PlainTableRequest ==
    /\ expandLakeFormationResourceType(request) = "TABLE"
    /\ request.table[1].name # ""
    /\ ~request.table[1].wildcard

\* C3: for a plain Table request, when the List response holds the base
\* Table entry and the column-wildcard TableWithColumns entry of the same
\* table (and no other matching entry), the Read returns without error and
\* stores the permissions of both entries, concatenated in List order.
C3_SelectSplitMerged ==
    \A i, j \in 1..Len(remote) :
        ( /\ ListSucceeded
          /\ PlainTableRequest
          /\ i < j
          /\ Matching = {i, j}
          /\ \/ MatchesPrimary(remote[i]) /\ MatchesAuxiliary(remote[j])
             \/ MatchesAuxiliary(remote[i]) /\ MatchesPrimary(remote[j]) )
        => /\ result = Ok
           /\ d.permissions = remote[i].Permissions \o remote[j].Permissions
           /\ d.permissions_with_grant_option =
                remote[i].PermissionsWithGrantOption \o remote[j].PermissionsWithGrantOption

----------------------------------------------------------------------------
(* C4 *)

\* C4: when a Read's List call succeeds and exactly one entry of the
\* response matches, and it matches the declared locator, the Read returns
\* success and stores exactly that entry's permissions and grantable
\* permissions, in the same order.
C4_SingleMatchSurfaced ==
    \A i \in 1..Len(remote) :
        (ListSucceeded /\ Matching = {i} /\ MatchesPrimary(remote[i])) =>
            /\ result = Ok
            /\ d.permissions = remote[i].Permissions
            /\ d.permissions_with_grant_option = remote[i].PermissionsWithGrantOption

----------------------------------------------------------------------------
(* C5 *)

DatabaseRequest == expandLakeFormationResourceType(request) = "DATABASE"

\* C5: round trip of a Database request against a service that stores what
\* Grant sends and whose List returns what is stored. The Grant that
\* succeeded carried a Database locator and the declared permissions; when
\* the first List call of the Read that follows succeeds over the one stored
\* entry, Create returns success with the declared permissions, taken from
\* a single retained entry; no Create has more than one successful Grant.
C5_DatabaseRoundTrip ==
    [][ /\ (op = "Create" /\ DatabaseRequest /\ pc = "list") =>
            /\ okCalls.grant = 1
            /\ grantSent.Resource =
                    [EmptyResource EXCEPT !.Database =
                        expandLakeFormationDatabaseResource(request.database[1])]
            /\ grantSent.Permissions = request.permissions
        /\ ( /\ op = "Create" /\ DatabaseRequest
             /\ pc = "list" /\ tries = 0 /\ Len(remote) = 1
             /\ pc' = "done" /\ okCalls'.list = 1 ) =>
            /\ result' = Ok
            /\ okCalls'.grant = 1
            /\ Len(principalResourcePermissions') = 1
            /\ d'.permissions = request.permissions
            /\ d'.permissions_with_grant_option = request.permissions_with_grant_option
            /\ d'.id = HandleId
      ]_vars

\* a Create of a Database request whose Grant succeeded after its budget ran
\* out, read back from the single stored entry
C5_Witness ==
    /\ pc = "done" /\ op = "Create" /\ DatabaseRequest
    /\ "grant" \in exhausted
    /\ Len(remote) = 1
    /\ Len(principalResourcePermissions) = 1
    /\ result = Ok
    /\ d.permissions = <<"SELECT", "ALTER">>

----------------------------------------------------------------------------
(* C6 *)

\* an attempt of `call`, made within the budget, has just failed with
\* ConcurrentModification
ConcurrentModificationIn(call, at) ==
    pc = at /\ lastErr'[call].code = ConcurrentModification

----------------------------------------------------------------------------
(* C7 *)

\* errors that none of the retryable conditions recognizes
PlainErrors ==
    {e \in RemoteErrors : e.msg = "other" /\ e.code \in {InvalidInput, EntityNotFound}}

\* an attempt of `call`, made within the budget, has just failed with an
\* error that is not transient
TerminalIn(call, at) == pc = at /\ lastErr'[call] \in PlainErrors

\* C7 as stated: a failure that is not transient ends the attempts and the
\* operation returns that error; in Create no List call follows.
C7_TerminalErrorReturned ==
    [][ \A call \in {"grant", "list", "revoke"} :
            TerminalIn(call, call) =>
                /\ pc' = "done"
                /\ result'.ret = "error"
                /\ result'.cause = lastErr'[call]
                /\ (call = "grant" => okCalls'.list = 0 /\ lastErr'.list = NoErr)
      ]_vars

\* C7 amended: a failure that is not transient ends the attempts; Create and
\* Delete return it as an error, and in Create no List call follows; Read
\* returns it as an error too, except that EntityNotFound from List in the
\* Read of a resource that is not new is reported as NotFound: the handle
\* is cleared and Read returns success.
C7_TerminalErrorEndsAttempts ==
    [][ /\ TerminalIn("grant", "grant") =>
            /\ pc' = "done"
            /\ result' = Error("error creating Lake Formation Permissions", lastErr'.grant)
            /\ okCalls'.list = 0 /\ lastErr'.list = NoErr
            /\ finalCalls' = NoCalls
            /\ remote' = remote
        /\ TerminalIn("revoke", "revoke") =>
            /\ pc' = "done"
            /\ result' = Error("unable to revoke LakeFormation Permissions", lastErr'.revoke)
            /\ finalCalls' = NoCalls
            /\ remote' = remote
        /\ TerminalIn("list", "list") =>
            /\ pc' = "done"
            /\ finalCalls'.list = 0
            /\ IF ~isNew /\ lastErr'.list.code = EntityNotFound
               THEN result' = Ok /\ d'.id = ""
               ELSE /\ result' = Error("error reading Lake Formation permissions",
                                       lastErr'.list)
                    /\ d' = d
      ]_vars

\* Create has returned the plain InvalidInput failure of its Grant call
\* without calling List
C7_Witness ==
    /\ pc = "done" /\ op = "Create"
    /\ lastErr.grant = [code |-> InvalidInput, msg |-> "other"]
    /\ result.cause = lastErr.grant
    /\ okCalls.list = 0
    /\ d.id = ""

----------------------------------------------------------------------------
(* C8 *)

FinalPhase(call) ==
    CASE call = "grant" -> "grant_final"
      [] call = "list" -> "list_final"
      [] call = "revoke" -> "revoke_final"

\* C8 as stated: the call made after the budget ran out decides the
\* operation's outcome, success if it succeeds and its error otherwise.
C8_FinalAttemptIsOutcome ==
    \A call \in exhausted :
        (pc = "done" /\ finalCalls[call] = 1) =>
            IF lastErr[call] = NoErr
            THEN result = Ok
            ELSE result.ret = "error" /\ result.cause = lastErr[call]

\* C8 amended: when the budget of a call runs out, one more attempt of that
\* call is made and it is not retried whatever it returns. If it fails, the
\* operation returns its error (the Read of a resource that is not new
\* reports EntityNotFound as NotFound). If it succeeds, the handler goes on
\* as after any successful call: Delete returns success, Create runs its
\* Read, and Read applies its checks on the number of retained entries.
C8_OneUnretriedFinalAttempt ==
    /\ [](\A call \in {"grant", "list", "revoke"} :
            /\ finalCalls[call] <= 1
            /\ (finalCalls[call] = 1 => call \in exhausted)
            /\ (pc = FinalPhase(call) => call \in exhausted /\ finalCalls[call] = 0)
            /\ (pc = "done" /\ call \in exhausted => finalCalls[call] = 1))
    /\ [][ /\ \A call \in {"grant", "list", "revoke"} :
                pc = FinalPhase(call) =>
                    /\ finalCalls'[call] = 1
                    /\ pc' \notin {call, FinalPhase(call)}
           /\ pc = "revoke_final" =>
                /\ pc' = "done"
                /\ result' = IF lastErr'.revoke = NoErr THEN Ok
                             ELSE Error("unable to revoke LakeFormation Permissions",
                                        lastErr'.revoke)
           /\ pc = "grant_final" =>
                IF lastErr'.grant = NoErr
                THEN pc' = "list" /\ result' = NoResult /\ d'.id = HandleId
                ELSE /\ pc' = "done"
                     /\ result' = Error("error creating Lake Formation Permissions",
                                        lastErr'.grant)
                     /\ okCalls'.list = 0
           /\ pc = "list_final" =>
                /\ pc' = "done"
                /\ IF lastErr'.list = NoErr
                   THEN /\ okCalls'.list = 1
                        /\ (Len(principalResourcePermissions') \in {1, 2} <=> result' = Ok)
                   ELSE IF ~isNew /\ lastErr'.list.code = EntityNotFound
                   THEN result' = Ok /\ d'.id = ""
                   ELSE result' = Error("error reading Lake Formation permissions",
                                        lastErr'.list)
         ]_vars

\* Delete has returned the failure of the Revoke call it made after the
\* budget ran out, a failure it would have retried within the budget
C8_Witness ==
    /\ pc = "done" /\ op = "Delete"
    /\ "revoke" \in exhausted /\ finalCalls.revoke = 1
    /\ lastErr.revoke.code = ConcurrentModification
    /\ result = Error("unable to revoke LakeFormation Permissions", lastErr.revoke)

----------------------------------------------------------------------------
(* C9 *)

\* the grant Delete is to revoke is not stored by the service
GrantAbsent ==
    \A i \in 1..Len(remote) : ~SameGrant(remote[i], MutationInput(request))

\* C9: Delete of a grant that no longer exists, for which Revoke answers
\* that the entity does not exist, returns success.
C9_DeleteOfAbsentGrantSucceeds ==
    ( /\ pc = "done" /\ op = "Delete"
      /\ GrantAbsent
      /\ lastErr.revoke.code = EntityNotFound ) => result = Ok

----------------------------------------------------------------------------
(* C10 *)

ListEntityNotFound == ReadReturned /\ lastErr.list.code = EntityNotFound

\* C10 as stated: EntityNotFound from List makes every Read, the one at the
\* end of Create included, report NotFound: handle cleared, success.
C10_EntityNotFoundIsNotFound ==
    ListEntityNotFound => result = Ok /\ d.id = ""

\* C10 amended: EntityNotFound from List makes the Read of a resource that is
\* not new report NotFound (handle cleared, nothing else changed, success);
\* the Read at the end of the Create of a new resource returns it as an
\* error and keeps the handle Create has set.
C10_EntityNotFoundUnlessNew ==
    ListEntityNotFound =>
        IF isNew
        THEN /\ result = Error("error reading Lake Formation permissions", lastErr.list)
             /\ d = [request EXCEPT !.id = HandleId]
        ELSE /\ result = Ok
             /\ d = [request EXCEPT !.id = ""]

\* a Read whose List call answered EntityNotFound has cleared the handle
C10_Witness ==
    /\ pc = "done" /\ op = "Read"
    /\ lastErr.list.code = EntityNotFound
    /\ request.id = HandleId /\ d.id = ""
    /\ result = Ok

----------------------------------------------------------------------------
(* C11 *)

\* a Read is under way or has returned after a List call without error, so
\* its matchResource is still at hand
ReadHoldsLocator ==
    /\ pc \in {"list", "list_final", "done"}
    /\ matchResource # NilPtr

\* C11: the comparisons a Read makes never change the declared locator:
\* whatever entries were compared and whatever the comparisons returned,
\* the locator Read built from the request is as the request declares it,
\* its catalog id unset if the request leaves it unset.
C11_DeclaredLocatorUnchanged ==
    ReadHoldsLocator => matchResource = Declared

----------------------------------------------------------------------------
(* The locator functions on their own: each is applied once to inputs drawn *)
(* from the sets below                                                      *)

DataLocationBlock(cat, arn) == [catalog_id |-> cat, arn |-> arn]

\* Requests the schema admits beyond those of Requests: a wildcard table, a
\* table in a named catalog, excluded columns, a data location, and
\* catalog_resource set together with a block (it conflicts with none).
LocatorRequests ==
    Requests \cup
    { [BaseRequest EXCEPT !.table = <<TableBlock("", "db1", "", TRUE)>>],
      [BaseRequest EXCEPT !.table = <<TableBlock("c2", "db1", "t1", FALSE)>>],
      [BaseRequest EXCEPT !.table_with_columns =
            <<TableWithColumnsBlock("c1", "db1", "t1", <<>>, <<"col2">>)>>],
      [BaseRequest EXCEPT !.data_location = <<DataLocationBlock("", "arn:aws:s3:::b")>>],
      [BaseRequest EXCEPT !.catalog_resource = TRUE,
                          !.database = <<DatabaseBlock("", "db1")>>],
      [BaseRequest EXCEPT !.catalog_resource = TRUE,
                          !.table_with_columns =
                                <<TableWithColumnsBlock("", "db1", "t1", <<"col1">>, <<>>)>>] }

DataLocationLocator(cat, arn) ==
    [EmptyResource EXCEPT !.DataLocation = [CatalogId |-> cat, ResourceArn |-> arn]]

\* lakeformation.Resource values handed to the comparison
Locators ==
    { DatabaseLocator(c, n) : c \in {NIL, "c1", "c2"}, n \in {"db1", "db2"} }
    \cup { TableLocator(c, "db1", "t1") : c \in {NIL, "c1"} }
    \cup { ColumnWildcardLocator(c, "db1", "t1") : c \in {NIL, "c1"} }
    \cup { DataLocationLocator(c, "arn:aws:s3:::b") : c \in {NIL, "c1"} }
    \cup { [EmptyResource EXCEPT !.Catalog = EmptyStruct] }

LocatorInit ==
    /\ d \in LocatorRequests
    /\ request = NilPtr
    /\ \E b \in Locators : remote = <<Entry(b, <<"SELECT">>, <<>>)>>
    /\ matchResource \in Locators
    /\ isNew = FALSE
    /\ pc = "idle"
    /\ op = "none"
    /\ input = NilPtr
    /\ selectPermissionsResource = NilPtr
    /\ principalResourcePermissions = <<>>
    /\ result = NoResult
    /\ tries = 0
    /\ okCalls = NoCalls
    /\ finalCalls = NoCalls
    /\ exhausted = {}
    /\ lastErr = NoOutcome
    /\ grantSent = NilPtr
    /\ cancelled = FALSE

\* resourceAwsLakeFormationPermissionsCompareResource(*matchResource,
\* *permission.Resource) for the one entry held: `result` is what it
\* returned, matchResource what its assignments left behind
ApplyCompare ==
    /\ pc = "idle"
    /\ op' = "CompareResource"
    /\ pc' = "done"
    /\ result' = resourceAwsLakeFormationPermissionsCompareResource(
                        matchResource, remote[1].Resource)
    /\ matchResource' = CompareResourceFill(matchResource, remote[1].Resource)
    /\ request' = d
    /\ UNCHANGED <<cancelled, d, isNew, remote, input, selectPermissionsResource,
                   principalResourcePermissions, tries, okCalls, finalCalls,
                   exhausted, lastErr, grantSent>>

\* expandLakeFormationResourceType(d) and expandLakeFormationResource(d, false),
\* with the List input that carries expandLakeFormationResource(d, true)
ApplyExpand ==
    /\ pc = "idle"
    /\ op' = "expandLakeFormationResource"
    /\ pc' = "done"
    /\ result' = expandLakeFormationResourceType(d)
    /\ matchResource' = expandLakeFormationResource(d, FALSE)
    /\ input' = ListInput(d)
    /\ request' = d
    /\ UNCHANGED <<cancelled, d, isNew, remote, selectPermissionsResource,
                   principalResourcePermissions, tries, okCalls, finalCalls,
                   exhausted, lastErr, grantSent>>

\* expandLakeFormationResourceForSelectPermissions(d)
ApplySelect ==
    /\ pc = "idle"
    /\ op' = "expandLakeFormationResourceForSelectPermissions"
    /\ pc' = "done"
    /\ selectPermissionsResource' = expandLakeFormationResourceForSelectPermissions(d)
    /\ request' = d
    /\ UNCHANGED <<cancelled, d, isNew, remote, input, matchResource, result,
                   principalResourcePermissions, tries, okCalls, finalCalls,
                   exhausted, lastErr, grantSent>>

LocatorNext ==
    \/ ApplyCompare
    \/ ApplyExpand
    \/ ApplySelect

LocatorSpec == LocatorInit /\ [][LocatorNext]_vars

----------------------------------------------------------------------------
(* C12 *)

\* C12: locator equality is reflexive and symmetric: comparing a locator
\* with itself returns true, and comparing two locators returns the same in
\* both argument orders, so two locators that differ only in that one has
\* its catalog id unset are equal whichever is passed first.
C12_EqualReflexiveSymmetric ==
    [][ op' = "CompareResource" =>
            LET a == matchResource
                b == remote[1].Resource
            IN  /\ resourceAwsLakeFormationPermissionsCompareResource(a, a)
                /\ resourceAwsLakeFormationPermissionsCompareResource(b, b)
                /\ result' = resourceAwsLakeFormationPermissionsCompareResource(b, a)
      ]_vars

----------------------------------------------------------------------------
(* C13 *)

SelectResolved ==
    pc = "done" /\ op = "expandLakeFormationResourceForSelectPermissions"

\* C13: the select-split resolver gives no auxiliary locator when the request
\* has no table block and when its table block has wildcard set and no
\* name; when it gives one, the table block carries a database name and a
\* name, and the locator is TableWithColumns of that database and name with
\* an empty column wildcard.
C13_SelectSplitResolver ==
    SelectResolved =>
        /\ request.table = <<>> => selectPermissionsResource = NilPtr
        /\ (request.table # <<>> /\ request.table[1].wildcard /\ request.table[1].name = "")
                => selectPermissionsResource = NilPtr
        /\ selectPermissionsResource # NilPtr =>
                /\ request.table # <<>>
                /\ request.table[1].database_name # ""
                /\ request.table[1].name # ""
                /\ selectPermissionsResource =
                        ColumnWildcardLocator(NIL, request.table[1].database_name,
                                              request.table[1].name)

----------------------------------------------------------------------------
(* C14 *)

\* the variants in their order of precedence, with the field of
\* lakeformation.Resource each one populates
Precedence ==
    << [type |-> "CATALOG", field |-> "Catalog"],
       [type |-> "DATA_LOCATION", field |-> "DataLocation"],
       [type |-> "DATABASE", field |-> "Database"],
       [type |-> "TABLE", field |-> "Table"],
       [type |-> "TABLE_WITH_COLUMNS", field |-> "TableWithColumns"] >>

\* the positions in Precedence of the variants a request declares
DeclaredVariants(rd) ==
    {i \in 1..5 :
        \/ i = 1 /\ rd.catalog_resource
        \/ i = 2 /\ rd.data_location # <<>>
        \/ i = 3 /\ rd.database # <<>>
        \/ i = 4 /\ rd.table # <<>>
        \/ i = 5 /\ rd.table_with_columns # <<>>}

Populated(res) == {f \in DOMAIN res : res[f] # NilPtr}

ExpandReturned == pc = "done" /\ op = "expandLakeFormationResource"

\* C14: for every valid request the classification yields one variant, the
\* first in the order Catalog, DataLocation, Database, Table,
\* TableWithColumns that the request declares, and the unsquashed locator
\* has that variant's field populated and the other four nil.
C14_OneVariantByPrecedence ==
    ExpandReturned =>
        \E i \in DeclaredVariants(request) :
            /\ \A j \in DeclaredVariants(request) : i <= j
            /\ result = Precedence[i].type
            /\ Populated(matchResource) = {Precedence[i].field}

\* a request that declares the catalog and a database has been classified
\* as Catalog and expanded to a locator with Catalog alone
C14_Witness ==
    /\ ExpandReturned
    /\ DeclaredVariants(request) = {1, 3}
    /\ result = "CATALOG"
    /\ matchResource = [EmptyResource EXCEPT !.Catalog = EmptyStruct]

----------------------------------------------------------------------------
(* C15 *)

\* the Read that ends Create has made a List call
ListCalled == lastErr.list # NoErr \/ okCalls.list > 0

\* what Read returns for the outcome `e` of its last List call and the
\* entries it has retained
ReadOutcome(e, retained) ==
    IF e # NoErr
    THEN IF ~isNew /\ e.code = EntityNotFound THEN Ok
         ELSE Error("error reading Lake Formation permissions", e)
    ELSE IF Len(retained) = 0 THEN Error("no permissions found", NoErr)
    ELSE IF Len(retained) > 2
    THEN Error("multiple permissions found for same resource", NoErr)
    ELSE Ok

\* C15: in Create the List call of Read comes only after a Grant attempt has
\* succeeded, at most one Grant attempt succeeds, Create does not return
\* success without having run the Read, and once Grant has succeeded what
\* Create returns is what the Read returns.
C15_CreateThenRead ==
    /\ [](op = "Create" =>
            /\ okCalls.grant <= 1
            /\ (pc \in {"list", "list_final"} \/ ListCalled) => okCalls.grant = 1
            /\ (pc \in {"grant", "grant_final"}) => okCalls.grant = 0 /\ ~ListCalled
            /\ (pc = "done" /\ result = Ok) => okCalls.grant = 1 /\ ListCalled
            /\ (pc = "done" /\ okCalls.grant = 1) =>
                    result = ReadOutcome(lastErr.list, principalResourcePermissions))
    /\ [][ (op = "Create" /\ pc \in {"grant", "grant_final"} /\ lastErr'.grant = NoErr) =>
                /\ pc' = "list"
                /\ result' = NoResult
                /\ okCalls'.grant = 1
         ]_vars

\* Create has returned the consistency error of the Read that followed its
\* successful Grant
C15_Witness ==
    /\ pc = "done" /\ op = "Create"
    /\ okCalls.grant = 1 /\ okCalls.list = 1
    /\ result.ret = "error"
    /\ result.cause = NoErr

----------------------------------------------------------------------------
(* C16 *)

\* the Read's List call succeeded and the Read counted zero or more than two
\* matches
ConsistencyError ==
    /\ ListSucceeded
    /\ Len(principalResourcePermissions) = 0 \/ Len(principalResourcePermissions) > 2

\* C16: a Read that ends in a consistency error returns an error, keeps the
\* handle, and leaves principal, permissions, grantable permissions and the
\* locator fields as they were stored.
C16_ConsistencyErrorKeepsState ==
    ConsistencyError =>
        /\ result.ret = "error"
        /\ result.msg \in {"no permissions found",
                           "multiple permissions found for same resource"}
        /\ d.id = HandleId
        /\ \A k \in DOMAIN request : k # "id" => d[k] = request[k]

\* a Read that retained more than two entries has returned the error, the
\* stored permissions still those it was given
C16_Witness ==
    /\ ConsistencyError /\ op = "Read"
    /\ Len(principalResourcePermissions) = 3
    /\ result.msg = "multiple permissions found for same resource"
    /\ d = request

----------------------------------------------------------------------------
(* C17 *)

\* C17: a Read that succeeds with two retained entries has the select split
\* before it: one of the two matches the declared locator, the other does
\* not and matches the auxiliary TableWithColumns wildcard locator; two
\* entries that both match the declared locator are not accepted.
C17_TwoMatchesOnlySelectSplit ==
    (ListSucceeded /\ result = Ok /\ Len(principalResourcePermissions) = 2) =>
        \E i, j \in {1, 2} :
            /\ i # j
            /\ MatchesPrimary(principalResourcePermissions[i])
            /\ ~MatchesPrimary(principalResourcePermissions[j])
            /\ MatchesAuxiliary(principalResourcePermissions[j])

----------------------------------------------------------------------------
(* C18 *)

CallPhases == {"grant", "grant_final", "list", "list_final", "revoke", "revoke_final"}

\* The caller signals cancellation while a handler runs. The handlers take
\* (d, meta) and call resource.Retry with a duration: nothing they read
\* carries the signal.
Cancel ==
    /\ pc \in CallPhases
    /\ ~cancelled
    /\ cancelled' = TRUE
    /\ UNCHANGED <<d, request, isNew, remote, pc, op, input, matchResource,
                   selectPermissionsResource, principalResourcePermissions, result,
                   tries, okCalls, finalCalls, exhausted, lastErr, grantSent>>

CancelNext ==
    \/ Next
    \/ Cancel

CancelSpec == Init /\ [][CancelNext]_vars

\* C18: the retry loops of Create, Read and Delete look at the cancellation
\* signal between attempts: once it is raised after a failed attempt, no
\* further remote attempt is started and the handler returns a cancellation
\* error, which is neither the error of a remote call nor the outcome of
\* the attempt made when the budget has run out.
C18_CancellationStopsAttempts ==
    [][ (cancelled /\ pc \in CallPhases /\ tries > 0) =>
            /\ pc' = "done"
            /\ okCalls' = okCalls /\ finalCalls' = finalCalls /\ lastErr' = lastErr
            /\ remote' = remote
            /\ result'.ret = "error"
            /\ result'.msg = "cancelled"
            /\ result'.cause = NoErr
      ]_vars

----------------------------------------------------------------------------
(* C19 *)

TableWithColumnsRequest == expandLakeFormationResourceType(request) = "TABLE_WITH_COLUMNS"

\* `input` is the ListPermissionsInput of a Read
ListInputBuilt ==
    \/ pc \in {"list", "list_final"}
    \/ ReadReturned

\* `input` is the GrantPermissionsInput or the RevokePermissionsInput
MutationInputBuilt ==
    \/ pc \in {"grant", "grant_final", "revoke", "revoke_final"}
    \/ pc = "done" /\ (op = "Delete" \/ (op = "Create" /\ okCalls.grant = 0))

\* a locator with its catalog id taken out of the comparison
WithoutCatalogId(res) ==
    [res EXCEPT !.TableWithColumns = IF @ # NilPtr THEN [@ EXCEPT !.CatalogId = NIL] ELSE @]

\* C19: for a table-with-columns request the List input of Read carries a
\* plain Table locator of the same catalog, database and table name and no
\* TableWithColumns locator, while the locator the entries are matched with
\* is the unsquashed TableWithColumns locator; the inputs of Grant and
\* Revoke carry the unsquashed locator of the request, whatever its variant,
\* and never the auxiliary select locator.
C19_FilterSquashedMatchUnsquashed ==
    /\ (ListInputBuilt /\ TableWithColumnsRequest) =>
            LET block == request.table_with_columns[1] IN
            /\ input.Resource =
                    [EmptyResource EXCEPT !.Table =
                        [CatalogId |-> StrPtr(block.catalog_id),
                         DatabaseName |-> block.database_name,
                         Name |-> block.name,
                         TableWildcard |-> NilPtr]]
            /\ matchResource # NilPtr =>
                    /\ Populated(matchResource) = {"TableWithColumns"}
                    /\ matchResource.TableWithColumns.ColumnNames = block.column_names
                    /\ WithoutCatalogId(matchResource) = WithoutCatalogId(Declared)
    /\ MutationInputBuilt =>
            /\ input.Resource = Declared
            /\ input.Resource # Auxiliary
    /\ grantSent # NilPtr =>
            /\ grantSent.Resource = Declared
            /\ grantSent.Resource # Auxiliary

\* Create of a table-with-columns request has sent Grant the
\* TableWithColumns locator and List the Table locator
C19_Witness ==
    /\ pc = "done" /\ op = "Create" /\ TableWithColumnsRequest
    /\ okCalls.list = 1
    /\ grantSent.Resource.TableWithColumns # NilPtr
    /\ input.Resource.Table # NilPtr
    /\ matchResource.TableWithColumns # NilPtr

----------------------------------------------------------------------------
(* C20 *)

Phases == CallPhases \cup {"idle", "done"}

\* A step of a handler: until it has returned, every step of Next moves pc
\* or counts one more attempt.
HandlerStep ==
    /\ pc # "done"
    /\ pc' \in Phases
    /\ tries' \in 0..Budget
    /\ <<pc', tries'>> # <<pc, tries>>

\* A handler runs on its own thread of control and each remote call
\* returns: a handler that has not returned takes its next step.
FairSpec == Spec /\ WF_<<pc, tries>>(HandlerStep)

\* C20: every Create, Read and Delete terminates. Whatever the service
\* answers, transient errors at every attempt included, a call is attempted
\* at most Budget times within its budget and at most once more after it,
\* and the handler returns, with success or with an error.
C20_HandlersTerminate ==
    /\ [](/\ tries <= Budget
          /\ \A call \in {"grant", "list", "revoke"} : finalCalls[call] <= 1
          /\ pc = "done" => result.ret \in {"nil", "error"})
    /\ [][pc # "done" => <<pc', tries'>> # <<pc, tries>>]_vars
    /\ (pc \in CallPhases) ~> (pc = "done")

\* Create has returned after every Grant attempt, the one after the budget
\* included, was answered with a transient error
C20_Witness ==
    /\ pc = "done" /\ op = "Create"
    /\ exhausted = {"grant"} /\ finalCalls.grant = 1
    /\ isAWSErr(lastErr.grant, InvalidInput, "Invalid principal")
    /\ result = Error("error creating Lake Formation Permissions", lastErr.grant)

----------------------------------------------------------------------------
(* C21 *)

\* what one failure-free ListPermissionsPages call over the entries of the
\* service retains for the request
OnePass ==
    ListPermissionsPages(
        [match |-> Declared, select |-> Auxiliary, retained |-> <<>>],
        remote).retained

\* C21: the entries a Read ends with are those of one complete List pass.
\* When attempts that delivered pages and failed were made before the
\* attempt that succeeded, every entry is still counted once: the number of
\* retained entries and the merged permissions are those of a single
\* failure-free pass over the same entries.
C21_RetainedOfOnePass ==
    ListSucceeded =>
        /\ Len(principalResourcePermissions) = Len(OnePass)
        /\ flattenLakeFormationPermissions(principalResourcePermissions)
             = flattenLakeFormationPermissions(OnePass)
        /\ flattenLakeFormationGrantPermissions(principalResourcePermissions)
             = flattenLakeFormationGrantPermissions(OnePass)

----------------------------------------------------------------------------
(* C22 *)

\* the declared locator names a variant that carries a catalog id and leaves
\* the catalog id unset
DeclaredCatalogUnset ==
    \E variant \in {"DataLocation", "Database", "Table", "TableWithColumns"} :
        /\ Declared[variant] # NilPtr
        /\ Declared[variant].CatalogId = NIL

\* the entry is among those the Read ended with
Retained(e) ==
    \E j \in 1..Len(principalResourcePermissions) : principalResourcePermissions[j] = e

\* C22: which entries Read retains does not depend on the order List
\* returns them in. For a declared locator with the catalog id unset, every
\* entry equal to the declared locator once the catalog id is filled in from
\* the entry is retained, whatever entries were compared before it.
C22_RetainedWhateverCameBefore ==
    (ListSucceeded /\ DeclaredCatalogUnset) =>
        \A i \in 1..Len(remote) : MatchesPrimary(remote[i]) => Retained(remote[i])

----------------------------------------------------------------------------
(* C23 *)

\* C23: after a successful Read the stored locator has the declared
\* variant. For a request that declares a plain Table locator the Read
\* stores the table fields and no table_with_columns locator, whichever of
\* the base Table entry and the column-wildcard TableWithColumns entry List
\* returned first; the stored state has at most one locator variant.
C23_SurfacedVariantIsDeclared ==
    (ListSucceeded /\ result = Ok) =>
        /\ PlainTableRequest => (d.table # <<>> /\ d.table_with_columns = <<>>)
        /\ Cardinality(DeclaredVariants(d)) <= 1

====
